---- MODULE Spec2Model ----
(***************************************************************************)
(* kmsgrab: KMS/DRM screenshot tool (src/kmsgrab.c).                       *)
(*                                                                         *)
(* The program is one sequential process.  The model follows main() and    *)
(* save_png() statement by statement: pc is the position in the code, the  *)
(* other variables are the C locals, the process's descriptor table, its   *)
(* mappings, the files on disk, and a trace of the library and system      *)
(* calls made so far.  The kernel, the DRM driver and the file system are  *)
(* the environment: each call's outcome is chosen nondeterministically.    *)
(* The pixel converters, which main never calls, run as a program of their *)
(* own, ConvSpec, over the same variables.  LocatorSpec is the device      *)
(* locator at the head of main, run over every sequence of device nodes.   *)
(*                                                                         *)
(* Environment assumptions (inputs the model does not enumerate):          *)
(*   - argv[1] is short enough for "%s-%u.raw" to fit filename[64];        *)
(*   - fwrite, munmap, fclose and close of an open descriptor succeed;     *)
(*   - a mapping that succeeds is readable over its whole length.          *)
(***************************************************************************)
EXTENDS Integers, Sequences, FiniteSets

(***************************************************************************)
(* Bounds of the model.                                                    *)
(***************************************************************************)
\* number of device nodes /dev/dri/cardN that may exist
MaxCards == 2
\* largest count_planes the driver reports
MaxPlanes == 2
\* most pixels in a buffer handed to convert_to_24
MaxPixels == 2

(***************************************************************************)
(* Program constants.                                                      *)
(***************************************************************************)
EXIT_SUCCESS == 0
EXIT_FAILURE == 1
\* handles[], pitches[] have 4 entries; the loop runs p = 0..3
NumMemPlanes == 4
\* descriptors 0, 1, 2 are open when main starts
StdFds == {0, 1, 2}
\* argv[1], the output file name prefix
Argv1 == "shot"
\* errno after fopen fails (EACCES)
FopenErrno == 10 + 3
\* errno after mmap fails: EINVAL for a length of 0, else ENOMEM
MmapErrno(zeroLength) == IF zeroLength THEN 22 ELSE 12

(***************************************************************************)
(* 32-bit unsigned values.  TLC's integers stop at 2^31 - 1, so a uint32_t *)
(* is the pair <<high 16 bits, low 16 bits>>.                              *)
(***************************************************************************)
Half == 2 ^ 16

U32 == (0 .. Half - 1) \X (0 .. Half - 1)

\* the uint32_t with value n, for 0 <= n < 2^31
ToU32(n) == << n \div Half, n % Half >>

\* the 16-bit halves of x * y, for 0 <= x, y < 2^16, without exceeding 2^31
MulHalves(x, y) ==
    LET u == x * (y \div 256)
        v == x * (y % 256)
        t == (u % 256) * 256 + v
    IN  << (u \div 256) + (t \div Half), t % Half >>

\* unsigned int multiplication: the product modulo 2^32
Mul32(a, b) ==
    LET ll == MulHalves(a[2], b[2])
        hl == MulHalves(a[1], b[2])
        lh == MulHalves(a[2], b[1])
    IN  << (ll[1] + hl[2] + lh[2]) % Half, ll[2] >>

\* unsigned int division by a small divisor d (1 or 2 here)
Div32(a, d) ==
    << a[1] \div d, ((a[1] % d) * Half + a[2]) \div d >>

IsZero32(a) == a[1] = 0 /\ a[2] = 0

\* mutant: the pitch is halved before the multiplication
PlaneSize_HalveFirst(fb, p) ==
    Mul32(Div32(fb.pitches[p + 1], IF p = 0 THEN 1 ELSE 2), fb.height)

\* size = fb2->pitches[p] * fb2->height / (!p ? 1 : 2)
PlaneSize(fb, p) ==
    Div32(Mul32(fb.pitches[p + 1], fb.height), IF p = 0 THEN 1 ELSE 2)

(***************************************************************************)
(* The environment's inputs.                                               *)
(***************************************************************************)
\* what a device node does when probed:
\*   "noopen"  open() fails
\*   "capfail" drmGetCap() fails
\*   "nodumb"  drmGetCap() succeeds and reports has_dumb = 0
\*   "dumb"    drmGetCap() succeeds and reports has_dumb = 1
NodeKinds == {"noopen", "capfail", "nodumb", "dumb"}

RECURSIVE SeqsUpTo(_, _)
SeqsUpTo(S, n) ==
    IF n = 0 THEN { <<>> }
    ELSE LET shorter == SeqsUpTo(S, n - 1)
         IN  shorter \cup { Append(s, x) : s \in { t \in shorter : Len(t) = n - 1 }, x \in S }

\* The device nodes /dev/dri/card0, card1, ... that exist when main starts:
\* any sequence of kinds.  Where the sequence ends there is no node, and the
\* open fails as it does for a node of kind "noopen".
NodeSequences == SeqsUpTo(NodeKinds, MaxCards)

\* The device nodes of a whole run of main.  The loop at lines 130-144 breaks
\* at the first node that reports dumb buffers, and no later statement of
\* main names another node: the sequence is cut behind that node.  Nodes
\* behind a node that does not open stay in it.  LocatorSpec, which is about
\* the nodes the loop does not reach, starts from NodeSequences.
ProbeSequences ==
    { s \in NodeSequences : \A k \in 1 .. Len(s) - 1 : s[k] # "dumb" }

\* plane->fb_id and plane->crtc_id as the driver reports them
FbIds == {0, 40}
CrtcIds == {0, 50}

Zero32 == ToU32(0)

\* the framebuffers drmModeGetFB2 may describe: handles[4], pitches[4], height
FrameBuffers ==
    { \* two memory planes, odd product: 3 * 3 / 2 rounds down
      [handles |-> <<2, 3, 0, 0>>,
       pitches |-> <<ToU32(3), ToU32(3), Zero32, Zero32>>,
       height  |-> ToU32(3)],
      \* absent planes between present ones, products beyond 2^32:
      \* 0xFFFF0001 * 65537 = 1 (mod 2^32), whose half is 0;
      \* 0xFFFFFFFF * 65537 = 0xFFFEFFFF (mod 2^32)
      [handles |-> <<0, 4, 0, 5>>,
       pitches |-> <<Zero32, <<65535, 1>>, Zero32, <<65535, 65535>> >>,
       height  |-> ToU32(65537)],
      \* no memory plane at all
      [handles |-> <<0, 0, 0, 0>>,
       pitches |-> <<Zero32, Zero32, Zero32, Zero32>>,
       height  |-> ToU32(1)] }

NoFB == [handles |-> <<0, 0, 0, 0>>,
         pitches |-> <<Zero32, Zero32, Zero32, Zero32>>,
         height  |-> Zero32]

\* the drmModeFB fields convert_to_24 reads, when there is no such call
NoConvFB == [width |-> Zero32, height |-> Zero32, bpp |-> 0]

\* an int read before it was ever assigned: negative or not
IndeterminateInts == {-22, 0}

(***************************************************************************)
(* State.                                                                  *)
(***************************************************************************)
VARIABLES
    pc,         \* position in main() or save_png()
    argc,       \* main: argc
    nodes,      \* environment: nodes[k + 1] is the kind of /dev/dri/card<k>
    card,       \* main: card
    drm_fd,     \* main: drm_fd
    retval,     \* main: retval
    plane_res,  \* main: plane_res->count_planes, -1 while plane_res is not set
    i,          \* main: i
    fb_id,      \* main: fb_id
    crtc_id,    \* main: crtc_id
    fb2,        \* main: *fb2, the descriptor handed to save_png
    err,        \* main: err
    p,          \* save_png: p
    ret,        \* save_png: ret
    prime_fd,   \* save_png: prime_fd
    size,       \* save_png: size
    pngfile,    \* save_png: descriptor behind pngfile, -1 when none
    fds,        \* the process's descriptor table: descriptor -> what it is
    maps,       \* the process's live mappings made by save_png
    files,      \* the file system: output file name -> the chunks written
    trace,      \* every library and system call made so far, in order
    byte_order, \* the host's byte order, "little" or "big"
    conv_fb,    \* convert_to_24: width, height and bpp of *fb
    from,       \* convert_to_24: the bytes behind from
    len,        \* convert_to_24: len
    ptr,        \* convert_to_24: how many pixels ptr has advanced past from
    to          \* convert_to_24: the samples stored through to, in order

vars == << pc, argc, nodes, card, drm_fd, retval, plane_res, i, fb_id, crtc_id,
           fb2, err, p, ret, prime_fd, size, pngfile, fds, maps, files, trace,
           byte_order, conv_fb, from, len, ptr, to >>

mainLocals == << card, drm_fd, retval, plane_res, i, fb_id, crtc_id, fb2, err >>
spLocals == << p, ret, prime_fd, size, pngfile >>
osState == << fds, maps, files >>
cvLocals == << byte_order, conv_fb, from, len, ptr, to >>

\* one call in the trace: the display plane and memory plane it is for (-1
\* when none), the descriptor passed or returned, whether it succeeded, and
\* a pair: the length of mmap/fwrite/munmap as a uint32_t, the
\* << fb_id, crtc_id >> that drmModeGetPlane reported, or the
\* << card, has_dumb >> of a call of the probe loop
Ev(op, plane, mp, fd, ok, val) ==
    [op |-> op, i |-> plane, p |-> mp, fd |-> fd, ok |-> ok, val |-> val]

Log(e) == trace' = Append(trace, e)

\* open(), fopen() and drmPrimeHandleToFD() return the lowest unused descriptor
LowestFree(tab) ==
    CHOOSE n \in 0 .. Cardinality(DOMAIN tab) :
        n \notin DOMAIN tab /\ \A m \in 0 .. n - 1 : m \in DOMAIN tab

Opened(tab, fd, kind, id) ==
    [n \in DOMAIN tab \cup {fd} |-> IF n = fd THEN [kind |-> kind, id |-> id] ELSE tab[n]]

\* close(fd): an open descriptor leaves the table, anything else is EBADF
Closed(tab, fd) == [n \in DOMAIN tab \ {fd} |-> tab[n]]

\* mutant: the plane index does not reach the file name
FileName_NoIndex(png_fn, plane) == << png_fn, "-", 0, ".raw" >>

\* sprintf(filename, "%s-%u.raw", png_fn, plane)
FileName(png_fn, plane) == << png_fn, "-", plane, ".raw" >>

\* fopen(filename, "w+") creates the file or truncates it
Created(fs, name) ==
    [n \in DOMAIN fs \cup {name} |-> IF n = name THEN << >> ELSE fs[n]]

Init ==
    /\ pc = "start"
    /\ argc \in {1, 2}
    /\ nodes \in ProbeSequences
    /\ card = 0
    /\ drm_fd = -1
    /\ retval = EXIT_FAILURE
    /\ plane_res = -1
    /\ i = 0
    /\ fb_id = 0
    /\ crtc_id = 0
    /\ fb2 = NoFB
    /\ err = 0
    /\ p = 0
    /\ ret = 0
    /\ prime_fd = -1
    /\ size = Zero32
    /\ pngfile = -1
    /\ fds = [n \in StdFds |-> [kind |-> "std", id |-> n]]
    /\ maps = {}
    /\ files = [n \in {} |-> << >>]
    /\ trace = << >>
    \* main never calls convert_to_24: its locals do not exist in this run
    /\ byte_order = "little"
    /\ conv_fb = NoConvFB
    /\ from = << >>
    /\ len = Zero32
    /\ ptr = 0
    /\ to = << >>

(***************************************************************************)
(* main(): usage check and the device probe loop.                          *)
(***************************************************************************)
\* if (argc < 2) { usage; goto out_return; }
Start ==
    /\ pc = "start"
    /\ pc' = IF argc < 2 THEN "out_return" ELSE "probe_open"
    /\ UNCHANGED << cvLocals, argc, nodes, mainLocals, spLocals, osState, trace >>

\* the node /dev/dri/card<k> can be opened
CanOpen(k) == k < Len(nodes) /\ nodes[k + 1] # "noopen"

\* drm_fd = open(buf, O_RDWR | O_CLOEXEC) inside the loop
ProbeOpen ==
    /\ pc = "probe_open"
    /\ IF CanOpen(card)
         THEN LET fd == LowestFree(fds) IN
              /\ drm_fd' = fd
              /\ fds' = Opened(fds, fd, "card", card)
              /\ Log(Ev("open", -1, -1, fd, TRUE, << card, 0 >>))
              /\ pc' = "probe_cap"
         ELSE /\ drm_fd' = -1
              /\ fds' = fds
              /\ Log(Ev("open", -1, -1, -1, FALSE, << card, 0 >>))
              /\ pc' = "out_return"
    /\ UNCHANGED << cvLocals, argc, nodes, card, retval, plane_res, i, fb_id, crtc_id, fb2, err,
                    spLocals, maps, files >>

\* mutant: has_dumb is not tested
Accepts_AnySuccess(kind) == kind \in {"dumb", "nodumb"}

\* drmGetCap(drm_fd, DRM_CAP_DUMB_BUFFER, &has_dumb) >= 0 && has_dumb
Accepts(kind) == kind = "dumb"

\* if (drmGetCap(...) >= 0 && has_dumb) break;
ProbeCap ==
    /\ pc = "probe_cap"
    /\ LET kind == nodes[card + 1] IN
       /\ Log(Ev("drmGetCap", -1, -1, drm_fd, kind # "capfail",
                 << card, IF kind = "dumb" THEN 1 ELSE 0 >>))
       /\ pc' = IF Accepts(kind) THEN "reopen" ELSE "probe_close"
    /\ UNCHANGED << cvLocals, argc, nodes, mainLocals, spLocals, osState >>

\* close(drm_fd); card++
ProbeClose ==
    /\ pc = "probe_close"
    /\ Log(Ev("close", -1, -1, drm_fd, drm_fd \in DOMAIN fds, << card, 0 >>))
    /\ fds' = Closed(fds, drm_fd)
    /\ card' = card + 1
    /\ pc' = "probe_open"
    /\ UNCHANGED << cvLocals, argc, nodes, drm_fd, retval, plane_res, i, fb_id, crtc_id, fb2, err,
                    spLocals, maps, files >>

\* drm_fd = open(buf, O_RDWR | O_CLOEXEC) after the loop; the node may have
\* gone away or the descriptor table may be full
Reopen ==
    /\ pc = "reopen"
    /\ \E ok \in BOOLEAN :
         IF ok
           THEN LET fd == LowestFree(fds) IN
                /\ drm_fd' = fd
                /\ fds' = Opened(fds, fd, "card", card)
                /\ Log(Ev("open", -1, -1, fd, TRUE, << card, 0 >>))
                /\ pc' = "set_atomic"
           ELSE /\ drm_fd' = -1
                /\ fds' = fds
                /\ Log(Ev("open", -1, -1, -1, FALSE, << card, 0 >>))
                /\ pc' = "out_return"
    /\ UNCHANGED << cvLocals, argc, nodes, card, retval, plane_res, i, fb_id, crtc_id, fb2, err,
                    spLocals, maps, files >>

(***************************************************************************)
(* main(): capability negotiation and the plane list.                      *)
(***************************************************************************)
\* if (drmSetClientCap(drm_fd, DRM_CLIENT_CAP_ATOMIC, 1)) goto out_close_fd;
SetAtomicCap ==
    /\ pc = "set_atomic"
    /\ \E ok \in BOOLEAN :
         /\ Log(Ev("drmSetClientCap", -1, 0, drm_fd, ok, Zero32))
         /\ pc' = IF ok THEN "set_universal" ELSE "out_close_fd"
    /\ UNCHANGED << cvLocals, argc, nodes, mainLocals, spLocals, osState >>

\* mutant: the result of drmSetClientCap is not tested
SetUniversalPlanesCap_Unchecked ==
    /\ pc = "set_universal"
    /\ \E ok \in BOOLEAN :
         /\ Log(Ev("drmSetClientCap", -1, 1, drm_fd, ok, Zero32))
         /\ pc' = "get_plane_res"
    /\ UNCHANGED << cvLocals, argc, nodes, mainLocals, spLocals, osState >>

\* if (drmSetClientCap(drm_fd, DRM_CLIENT_CAP_UNIVERSAL_PLANES, 1)) goto out_close_fd;
SetUniversalPlanesCap ==
    /\ pc = "set_universal"
    /\ \E ok \in BOOLEAN :
         /\ Log(Ev("drmSetClientCap", -1, 1, drm_fd, ok, Zero32))
         /\ pc' = IF ok THEN "get_plane_res" ELSE "out_close_fd"
    /\ UNCHANGED << cvLocals, argc, nodes, mainLocals, spLocals, osState >>

\* plane_res = drmModeGetPlaneResources(drm_fd); if (!plane_res) goto out_close_fd;
\* then the for loop's i = 0
GetPlaneResources ==
    /\ pc = "get_plane_res"
    /\ \E n \in -1 .. MaxPlanes :
         /\ Log(Ev("drmModeGetPlaneResources", -1, n, drm_fd, n >= 0, Zero32))
         /\ plane_res' = n
         /\ pc' = IF n >= 0 THEN "plane_loop" ELSE "out_close_fd"
    /\ i' = 0
    /\ UNCHANGED << cvLocals, argc, nodes, card, drm_fd, retval, fb_id, crtc_id, fb2, err,
                    spLocals, osState >>

\* i < plane_res->count_planes; after the loop retval = EXIT_SUCCESS
PlaneLoop ==
    /\ pc = "plane_loop"
    /\ IF i < plane_res
         THEN pc' = "get_plane" /\ retval' = retval
         ELSE pc' = "out_close_prime_fd" /\ retval' = EXIT_SUCCESS
    /\ UNCHANGED << cvLocals, argc, nodes, card, drm_fd, plane_res, i, fb_id, crtc_id, fb2, err,
                    spLocals, osState, trace >>

\* mutant: only the buffer id is tested
IsActive_BufferOnly(fb, crtc) == fb # 0

\* if (!fb_id || !crtc_id) continue;
IsActive(fb, crtc) == fb # 0 /\ crtc # 0

\* drmModeGetPlane returned NULL: the read of plane->fb_id is a load from a
\* small offset of address 0, which faults
GetPlaneNull ==
    /\ Log(Ev("drmModeGetPlane", i, -1, drm_fd, FALSE, Zero32))
    /\ pc' = "crashed"
    /\ UNCHANGED << fb_id, crtc_id, i >>

\* plane = drmModeGetPlane(...); fb_id = plane->fb_id; crtc_id = plane->crtc_id;
\* drmModeFreePlane(plane); if (!fb_id || !crtc_id) continue;
GetPlane ==
    /\ pc = "get_plane"
    /\ \/ GetPlaneNull
       \/ \E f \in FbIds, c \in CrtcIds :
            /\ trace' = trace \o << Ev("drmModeGetPlane", i, -1, drm_fd, TRUE, << f, c >>),
                                    Ev("drmModeFreePlane", i, -1, -1, TRUE, Zero32) >>
            /\ fb_id' = f
            /\ crtc_id' = c
            /\ IF IsActive(f, c)
                 THEN pc' = "get_fb2" /\ i' = i
                 ELSE pc' = "plane_loop" /\ i' = i + 1
    /\ UNCHANGED << cvLocals, argc, nodes, card, drm_fd, retval, plane_res, fb2, err,
                    spLocals, osState >>

\* mutant: an unresolvable buffer is skipped (continue instead of goto)
GetFB2Null_Skip ==
    /\ Log(Ev("drmModeGetFB2", i, fb_id, drm_fd, FALSE, Zero32))
    /\ fb2' = NoFB
    /\ pc' = "plane_loop"
    /\ i' = i + 1

\* drmModeGetFB2 returned NULL: goto out_free_resources
GetFB2Null ==
    /\ Log(Ev("drmModeGetFB2", i, fb_id, drm_fd, FALSE, Zero32))
    /\ fb2' = NoFB
    /\ pc' = "out_free_resources"
    /\ i' = i

\* fb2 = drmModeGetFB2(drm_fd, fb_id); if (!fb2) goto out_free_resources;
\* otherwise save_png(fb2, drm_fd, argv[1], i) is entered
GetFB2 ==
    /\ pc = "get_fb2"
    /\ \/ GetFB2Null
       \/ \E fb \in FrameBuffers :
            /\ Log(Ev("drmModeGetFB2", i, fb_id, drm_fd, TRUE, Zero32))
            /\ fb2' = fb
            /\ pc' = "sp_fopen"
            /\ i' = i
    /\ UNCHANGED << cvLocals, argc, nodes, card, drm_fd, retval, plane_res, fb_id, crtc_id, err,
                    spLocals, osState >>

\* err = save_png(...) has returned; if (err < 0) goto out_close_prime_fd; i++
AfterSavePng ==
    /\ pc = "after_save"
    /\ IF err < 0
         THEN pc' = "out_close_prime_fd" /\ i' = i
         ELSE pc' = "plane_loop" /\ i' = i + 1
    /\ UNCHANGED << cvLocals, argc, nodes, card, drm_fd, retval, plane_res, fb_id, crtc_id, fb2, err,
                    spLocals, osState, trace >>

(***************************************************************************)
(* save_png(fb2, drm_fd, argv[1], i).                                      *)
(***************************************************************************)
\* a mapping of the buffer behind a handle, or the bytes read from one
Region(handle, sz) == [handle |-> handle, size |-> sz]

\* sprintf(filename, ...); pngfile = fopen(filename, "w+");
\* if (!pngfile) { ret = -errno; return ret; }
\* ret has no initial value: until it is assigned it holds anything
SavePngOpen ==
    /\ pc = "sp_fopen"
    /\ \/ /\ Log(Ev("fopen", i, -1, -1, FALSE, Zero32))
          /\ ret' = -FopenErrno
          /\ err' = -FopenErrno
          /\ pc' = "after_save"
          /\ UNCHANGED << p, pngfile, fds, files >>
       \/ \E garbage \in IndeterminateInts :
            LET fd == LowestFree(fds) IN
            /\ Log(Ev("fopen", i, -1, fd, TRUE, Zero32))
            /\ ret' = garbage
            /\ pngfile' = fd
            /\ fds' = Opened(fds, fd, "out", i)
            /\ files' = Created(files, FileName(Argv1, i))
            /\ p' = 0
            /\ pc' = "sp_export"
            /\ err' = err
    /\ UNCHANGED << cvLocals, argc, nodes, card, drm_fd, retval, plane_res, i, fb_id, crtc_id, fb2,
                    prime_fd, size, maps >>

\* mutant: the handle is not tested
IsPresent_Unchecked(fb, mp) == TRUE

\* if (!fb2->handles[p]) continue;
IsPresent(fb, mp) == fb.handles[mp + 1] # 0

\* mutant: a failed export leaves the loop (break instead of continue)
ExportFailed_Break ==
    /\ Log(Ev("drmPrimeHandleToFD", i, p, -1, FALSE, Zero32))
    /\ p' = NumMemPlanes
    /\ pc' = "sp_export"
    /\ UNCHANGED << prime_fd, fds >>

\* err = drmPrimeHandleToFD(...) < 0: continue with the loop's p++
ExportFailed ==
    /\ Log(Ev("drmPrimeHandleToFD", i, p, -1, FALSE, Zero32))
    /\ p' = p + 1
    /\ pc' = "sp_export"
    /\ UNCHANGED << prime_fd, fds >>

\* for (p = 0; p < 4; p++) { if (!fb2->handles[p]) continue;
\*     err = drmPrimeHandleToFD(...); if (err < 0) continue; ...
SavePngExport ==
    /\ pc = "sp_export"
    /\ IF p >= NumMemPlanes
         THEN /\ pc' = "sp_fclose"
              /\ UNCHANGED << p, prime_fd, fds, trace >>
         ELSE IF ~IsPresent(fb2, p)
           THEN /\ p' = p + 1
                /\ pc' = "sp_export"
                /\ UNCHANGED << prime_fd, fds, trace >>
           ELSE \/ ExportFailed
                \/ LET fd == LowestFree(fds) IN
                   /\ Log(Ev("drmPrimeHandleToFD", i, p, fd, TRUE, Zero32))
                   /\ prime_fd' = fd
                   /\ fds' = Opened(fds, fd, "prime", fb2.handles[p + 1])
                   /\ p' = p
                   /\ pc' = "sp_mmap"
    /\ UNCHANGED << cvLocals, argc, nodes, mainLocals, ret, size, pngfile, maps, files >>

\* mutant: the failure is logged but not recorded in ret
MapFailed_Ignored(sz) ==
    /\ Log(Ev("mmap", i, p, prime_fd, FALSE, sz))
    /\ ret' = ret
    /\ maps' = maps
    /\ pc' = "sp_close"

\* buffer == MAP_FAILED: ret = -errno, then on to close(prime_fd)
MapFailed(sz) ==
    /\ Log(Ev("mmap", i, p, prime_fd, FALSE, sz))
    /\ ret' = -MmapErrno(IsZero32(sz))
    /\ maps' = maps
    /\ pc' = "sp_close"

\* size = ...; buffer = mmap(NULL, size, PROT_READ, MAP_PRIVATE, prime_fd, 0);
\* if (buffer == MAP_FAILED) ret = -errno;
\* mmap of length 0 always fails (EINVAL)
SavePngMap ==
    /\ pc = "sp_mmap"
    /\ LET sz == PlaneSize(fb2, p) IN
       /\ size' = sz
       /\ \/ MapFailed(sz)
          \/ /\ ~IsZero32(sz)
             /\ Log(Ev("mmap", i, p, prime_fd, TRUE, sz))
             /\ ret' = ret
             /\ maps' = maps \cup { Region(fb2.handles[p + 1], sz) }
             /\ pc' = "sp_write"
    /\ UNCHANGED << cvLocals, argc, nodes, mainLocals, p, prime_fd, pngfile, fds, files >>

\* fwrite(buffer, size, 1, pngfile);
SavePngWrite ==
    /\ pc = "sp_write"
    /\ Log(Ev("fwrite", i, p, pngfile, TRUE, size))
    /\ files' = [files EXCEPT ![FileName(Argv1, i)] =
                    Append(@, Region(fb2.handles[p + 1], size))]
    /\ pc' = "sp_munmap"
    /\ UNCHANGED << cvLocals, argc, nodes, mainLocals, spLocals, fds, maps >>

\* munmap(buffer, size);
SavePngUnmap ==
    /\ pc = "sp_munmap"
    /\ Log(Ev("munmap", i, p, prime_fd, TRUE, size))
    /\ maps' = maps \ { Region(fb2.handles[p + 1], size) }
    /\ pc' = "sp_close"
    /\ UNCHANGED << cvLocals, argc, nodes, mainLocals, spLocals, fds, files >>

\* mutant: the exported descriptor is not closed
SavePngClose_Leak ==
    /\ pc = "sp_close"
    /\ p' = p + 1
    /\ pc' = "sp_export"
    /\ UNCHANGED << cvLocals, argc, nodes, mainLocals, ret, prime_fd, size, pngfile,
                    osState, trace >>

\* close(prime_fd); then the loop's p++
SavePngClose ==
    /\ pc = "sp_close"
    /\ Log(Ev("close", i, p, prime_fd, prime_fd \in DOMAIN fds, Zero32))
    /\ fds' = Closed(fds, prime_fd)
    /\ p' = p + 1
    /\ pc' = "sp_export"
    /\ UNCHANGED << cvLocals, argc, nodes, mainLocals, ret, prime_fd, size, pngfile, maps, files >>

\* fclose(pngfile); return ret;   and main's err = save_png(...)
SavePngReturn ==
    /\ pc = "sp_fclose"
    /\ Log(Ev("fclose", i, -1, pngfile, TRUE, Zero32))
    /\ fds' = Closed(fds, pngfile)
    /\ pngfile' = -1
    /\ err' = ret
    /\ pc' = "after_save"
    /\ UNCHANGED << cvLocals, argc, nodes, card, drm_fd, retval, plane_res, i, fb_id, crtc_id, fb2,
                    p, ret, prime_fd, size, maps, files >>

(***************************************************************************)
(* main(): the unwind labels.                                              *)
(***************************************************************************)
\* an int never assigned, used as a descriptor: it holds any value, the
\* number of any open descriptor (standard input, output and error included)
\* or a number that names no open descriptor, for which -1 stands
IndeterminateFds(tab) == {-1} \cup DOMAIN tab

\* out_close_prime_fd: close(prime_fd);
\* main never assigns its prime_fd: the value closed is any int, the number
\* of an open descriptor or not
OutClosePrimeFd ==
    /\ pc = "out_close_prime_fd"
    /\ \E fd \in IndeterminateFds(fds) :
         /\ Log(Ev("close", -1, -1, fd, fd \in DOMAIN fds, Zero32))
         /\ fds' = Closed(fds, fd)
    /\ pc' = "out_free_fb"
    /\ UNCHANGED << cvLocals, argc, nodes, mainLocals, spLocals, maps, files >>

\* out_free_fb: drmModeFreeFB(fb);
\* main never assigns fb: drmModeFreeFB ignores a null pointer and hands any
\* other value to free(), which may return or abort the process
OutFreeFb ==
    /\ pc = "out_free_fb"
    /\ \E outcome \in {"returns", "aborts"} :
         /\ Log(Ev("drmModeFreeFB", -1, -1, -1, outcome = "returns", Zero32))
         /\ pc' = IF outcome = "aborts" THEN "crashed" ELSE "out_free_resources"
    /\ UNCHANGED << cvLocals, argc, nodes, mainLocals, spLocals, osState >>

\* out_free_resources: drmModeFreePlaneResources(plane_res);
OutFreeResources ==
    /\ pc = "out_free_resources"
    /\ Log(Ev("drmModeFreePlaneResources", -1, -1, -1, plane_res >= 0, Zero32))
    /\ pc' = "out_close_fd"
    /\ UNCHANGED << cvLocals, argc, nodes, mainLocals, spLocals, osState >>

\* out_close_fd: close(drm_fd);
OutCloseFd ==
    /\ pc = "out_close_fd"
    /\ Log(Ev("close", -1, -1, drm_fd, drm_fd \in DOMAIN fds, Zero32))
    /\ fds' = Closed(fds, drm_fd)
    /\ pc' = "out_return"
    /\ UNCHANGED << cvLocals, argc, nodes, mainLocals, spLocals, maps, files >>

\* out_return: return retval;
OutReturn ==
    /\ pc = "out_return"
    /\ pc' = "exited"
    /\ UNCHANGED << cvLocals, argc, nodes, mainLocals, spLocals, osState, trace >>

\* the process has ended: main returned retval, or a signal killed it
Exited == pc = "exited"
Crashed == pc = "crashed"

Next ==
    \/ Start
    \/ ProbeOpen
    \/ ProbeCap
    \/ ProbeClose
    \/ Reopen
    \/ SetAtomicCap
    \/ SetUniversalPlanesCap
    \/ GetPlaneResources
    \/ PlaneLoop
    \/ GetPlane
    \/ GetFB2
    \/ AfterSavePng
    \/ SavePngOpen
    \/ SavePngExport
    \/ SavePngMap
    \/ SavePngWrite
    \/ SavePngUnmap
    \/ SavePngClose
    \/ SavePngReturn
    \/ OutClosePrimeFd
    \/ OutFreeFb
    \/ OutFreeResources
    \/ OutCloseFd
    \/ OutReturn

Spec == Init /\ [][Next]_vars

(***************************************************************************)
(* The device locator on its own: main from its first statement to the     *)
(* second open of the accepted node (lines 125-150), over every sequence   *)
(* of device nodes, the nodes the loop never reaches included.  A run ends *)
(* at "set_atomic", the device located, or at the exit.                    *)
(***************************************************************************)
LocatorInit ==
    /\ pc = "start"
    /\ argc \in {1, 2}
    /\ nodes \in NodeSequences
    /\ card = 0
    /\ drm_fd = -1
    /\ retval = EXIT_FAILURE
    /\ plane_res = -1
    /\ i = 0
    /\ fb_id = 0
    /\ crtc_id = 0
    /\ fb2 = NoFB
    /\ err = 0
    /\ p = 0
    /\ ret = 0
    /\ prime_fd = -1
    /\ size = Zero32
    /\ pngfile = -1
    /\ fds = [n \in StdFds |-> [kind |-> "std", id |-> n]]
    /\ maps = {}
    /\ files = [n \in {} |-> << >>]
    /\ trace = << >>
    /\ byte_order = "little"
    /\ conv_fb = NoConvFB
    /\ from = << >>
    /\ len = Zero32
    /\ ptr = 0
    /\ to = << >>

LocatorNext ==
    \/ Start
    \/ ProbeOpen
    \/ ProbeCap
    \/ ProbeClose
    \/ Reopen
    \/ OutReturn

LocatorSpec == LocatorInit /\ [][LocatorNext]_vars

(***************************************************************************)
(* The pixel converters rgb16_to_24, rgb32_to_24 and convert_to_24.        *)
(* Neither main nor save_png calls them, so no run of Spec reaches them.   *)
(* ConvSpec is the program of one call convert_to_24(fb, to, from): pc     *)
(* is the position in convert_to_24, the buffer behind from holds          *)
(* fb->width * fb->height pixels of fb->bpp bits and the buffer behind to  *)
(* has room for as many samples.                                           *)
(***************************************************************************)
\* x & y for integers x, y >= 0
RECURSIVE BitAnd(_, _)
BitAnd(x, y) ==
    IF x = 0 \/ y = 0 THEN 0
    ELSE (x % 2) * (y % 2) + 2 * BitAnd(x \div 2, y \div 2)

\* x << n and x >> n for an int x >= 0
ShiftLeft(x, n) == x * 2 ^ n
ShiftRight(x, n) == x \div 2 ^ n

\* the conversion of an int to uint8_t
ToU8(x) == x % 256

\* mutant: the high bits of each field are replicated into the low bits
rgb16_to_24_Replicate(px) ==
    [b |-> ToU8(ShiftLeft(BitAnd(px, \H1f), 3) + ShiftRight(BitAnd(px, \H1f), 2)),
     g |-> ToU8(ShiftRight(BitAnd(px, \H7e0), 3) + ShiftRight(BitAnd(px, \H7e0), 9)),
     r |-> ToU8(ShiftRight(BitAnd(px, \Hf800), 8) + ShiftRight(BitAnd(px, \Hf800), 13))]

\* pixel.b = (px & 0x1f) << 3; pixel.g = (px & 0x7e0) >> 3;
\* pixel.r = (px & 0xf800) >> 8;    px is promoted to int
rgb16_to_24(px) ==
    [b |-> ToU8(ShiftLeft(BitAnd(px, \H1f), 3)),
     g |-> ToU8(ShiftRight(BitAnd(px, \H7e0), 3)),
     r |-> ToU8(ShiftRight(BitAnd(px, \Hf800), 8))]

\* a & m and a >> n (0 <= n <= 16) for uint32_t values
And32(a, m) == << BitAnd(a[1], m[1]), BitAnd(a[2], m[2]) >>
Shr32(a, n) ==
    << a[1] \div 2 ^ n, (a[2] \div 2 ^ n) + (a[1] % 2 ^ n) * 2 ^ (16 - n) >>

\* the conversion of a uint32_t to uint8_t
Low8(a) == a[2] % 256

\* mutant: red is taken one byte too high
rgb32_to_24_TopByte(px) ==
    [b |-> Low8(And32(px, ToU32(\Hff))),
     g |-> Low8(And32(Shr32(px, 8), ToU32(\Hff))),
     r |-> Low8(And32(Shr32(Shr32(px, 16), 8), ToU32(\Hff)))]

\* pixel.b = px & 0xff; pixel.g = (px >> 8) & 0xff; pixel.r = (px >> 16) & 0xff;
rgb32_to_24(px) ==
    [b |-> Low8(And32(px, ToU32(\Hff))),
     g |-> Low8(And32(Shr32(px, 8), ToU32(\Hff))),
     r |-> Low8(And32(Shr32(px, 16), ToU32(\Hff)))]

\* *ptr for a uint16_t *ptr that is k elements past the bytes mem
Load16(mem, k, order) ==
    LET b0 == mem[2 * k + 1]
        b1 == mem[2 * k + 2]
    IN  IF order = "little" THEN b1 * 256 + b0 ELSE b0 * 256 + b1

\* *ptr for a uint32_t *ptr that is k elements past the bytes mem
Load32(mem, k, order) ==
    LET b0 == mem[4 * k + 1]
        b1 == mem[4 * k + 2]
        b2 == mem[4 * k + 3]
        b3 == mem[4 * k + 4]
    IN  IF order = "little" THEN << b3 * 256 + b2, b1 * 256 + b0 >>
                             ELSE << b0 * 256 + b1, b2 * 256 + b3 >>

\* len-- on an unsigned int: 0 wraps to 2^32 - 1
Dec32(a) ==
    IF a[2] > 0 THEN << a[1], a[2] - 1 >>
    ELSE IF a[1] > 0 THEN << a[1] - 1, Half - 1 >>
    ELSE << Half - 1, Half - 1 >>

\* the values of a byte that a lone 32-bit pixel is built from
ByteSamples == {0, 1, 2, 3, 4, 16, 32, 48, 127, 128, 254, 255}
Bytes == 0 .. 255

\* the pixels, as bytes in memory, that buffers of several pixels are built from
ScenarioPixels(bits) ==
    IF bits = 16
      THEN { << 0, 0 >>, << 31, 0 >>, << 224, 7 >>, << 0, 248 >>, << 255, 255 >> }
      ELSE { << 0, 0, 255, 0 >>, << 16, 32, 48, 0 >>, << 16, 32, 48, 255 >>,
             << 255, 255, 255, 255 >>, << 1, 2, 3, 4 >> }

RECURSIVE PixelSeqs(_, _)
PixelSeqs(S, n) ==
    IF n = 0 THEN { << >> }
    ELSE { s \o x : s \in PixelSeqs(S, n - 1), x \in S }

\* the buffers of n pixels: a lone 16-bit pixel takes every value, a lone
\* 32-bit pixel every combination of the sample bytes
Buffers(bits, n) ==
    IF n = 1 /\ bits = 16 THEN { << lo, hi >> : lo \in Bytes, hi \in Bytes }
    ELSE IF n = 1 THEN { << b0, b1, b2, b3 >> : b0 \in ByteSamples, b1 \in ByteSamples,
                                                  b2 \in ByteSamples, b3 \in ByteSamples }
    ELSE PixelSeqs(ScenarioPixels(bits), n)

\* fb->width, fb->height with at most MaxPixels pixels, and 65536 x 65536,
\* whose product is 0 as an unsigned int
Shapes ==
    { << ToU32(w), ToU32(h) >> : w \in 0 .. MaxPixels, h \in 0 .. MaxPixels }
    \cup { << << 1, 0 >>, << 1, 0 >> >> }

progVars == << argc, nodes, mainLocals, spLocals, osState, trace >>

ConvInit ==
    /\ pc = "cv_entry"
    /\ byte_order \in {"little", "big"}
    /\ \E shape \in Shapes, bits \in {16, 32} :
         LET n == Mul32(shape[1], shape[2]) IN
         /\ n[1] = 0 /\ n[2] <= MaxPixels
         /\ conv_fb = [width |-> shape[1], height |-> shape[2], bpp |-> bits]
         /\ from \in Buffers(bits, n[2])
    /\ len = Zero32
    /\ ptr = 0
    /\ to = << >>
    \* no part of main or save_png runs
    /\ argc = 2
    /\ nodes = << >>
    /\ card = 0
    /\ drm_fd = -1
    /\ retval = EXIT_FAILURE
    /\ plane_res = -1
    /\ i = 0
    /\ fb_id = 0
    /\ crtc_id = 0
    /\ fb2 = NoFB
    /\ err = 0
    /\ p = 0
    /\ ret = 0
    /\ prime_fd = -1
    /\ size = Zero32
    /\ pngfile = -1
    /\ fds = [n \in StdFds |-> [kind |-> "std", id |-> n]]
    /\ maps = {}
    /\ files = [n \in {} |-> << >>]
    /\ trace = << >>

\* unsigned int len = fb->width * fb->height; if (fb->bpp == 16) ... else ...
ConvertEntry ==
    /\ pc = "cv_entry"
    /\ len' = Mul32(conv_fb.width, conv_fb.height)
    /\ ptr' = 0
    /\ pc' = IF conv_fb.bpp = 16 THEN "cv_loop16" ELSE "cv_loop32"
    /\ UNCHANGED << progVars, byte_order, conv_fb, from, to >>

\* while (len--) *to++ = rgb16_to_24(*ptr++);
Convert16 ==
    /\ pc = "cv_loop16"
    /\ len' = Dec32(len)
    /\ IF IsZero32(len)
         THEN pc' = "cv_done" /\ UNCHANGED << ptr, to >>
         ELSE /\ to' = Append(to, rgb16_to_24(Load16(from, ptr, byte_order)))
              /\ ptr' = ptr + 1
              /\ pc' = "cv_loop16"
    /\ UNCHANGED << progVars, byte_order, conv_fb, from >>

\* mutant: ptr is not advanced
Convert32_NoAdvance ==
    /\ pc = "cv_loop32"
    /\ len' = Dec32(len)
    /\ IF IsZero32(len)
         THEN pc' = "cv_done" /\ UNCHANGED << ptr, to >>
         ELSE /\ to' = Append(to, rgb32_to_24(Load32(from, ptr, byte_order)))
              /\ ptr' = ptr
              /\ pc' = "cv_loop32"
    /\ UNCHANGED << progVars, byte_order, conv_fb, from >>

\* while (len--) *to++ = rgb32_to_24(*ptr++);
Convert32 ==
    /\ pc = "cv_loop32"
    /\ len' = Dec32(len)
    /\ IF IsZero32(len)
         THEN pc' = "cv_done" /\ UNCHANGED << ptr, to >>
         ELSE /\ to' = Append(to, rgb32_to_24(Load32(from, ptr, byte_order)))
              /\ ptr' = ptr + 1
              /\ pc' = "cv_loop32"
    /\ UNCHANGED << progVars, byte_order, conv_fb, from >>

\* convert_to_24 has returned
Converted == pc = "cv_done"

ConvNext ==
    \/ ConvertEntry
    \/ Convert16
    \/ Convert32

ConvSpec == ConvInit /\ [][ConvNext]_vars

(***************************************************************************)
(* Vocabulary of the properties.  The trace only ever grows by appending,  *)
(* and every prefix of a reachable trace is the trace of a reachable       *)
(* state, so a property of "the latest call", checked in every reachable   *)
(* state, is a property of every call.                                     *)
(***************************************************************************)
NoCall == Ev("", -1, -1, -1, TRUE, Zero32)
\* the k-th call back from the latest one (0 is the latest)
Back(k) == IF Len(trace) > k THEN trace[Len(trace) - k] ELSE NoCall
Latest == Back(0)

Made(op) == \E k \in 1 .. Len(trace) : trace[k].op = op
FailedCall(op) == \E k \in 1 .. Len(trace) : trace[k].op = op /\ ~trace[k].ok

\* descriptors of device nodes that are open now
OpenDeviceFds == { n \in DOMAIN fds : fds[n].kind = "card" }

\* the calls that enumerate, resolve, export, map or write
EnumerationOps ==
    {"drmModeGetPlaneResources", "drmModeGetPlane", "drmModeGetFB2", "fopen",
     "drmPrimeHandleToFD", "mmap", "fwrite"}

UsageError == argc < 2
FatalError ==
    \/ UsageError
    \/ FailedCall("open")
    \/ FailedCall("drmSetClientCap")
    \/ FailedCall("drmModeGetPlaneResources")
    \/ FailedCall("drmModeGetFB2")

(***************************************************************************)
(* C1.  Device Locator: a probed node that is rejected is closed before    *)
(* the next index is opened, and when location succeeds exactly one        *)
(* device-node descriptor is open at the moment capability negotiation     *)
(* starts.                                                                 *)
(* The code keeps the accepted probe descriptor open and opens the node a  *)
(* second time, so two are open: TLC refutes this statement.               *)
(***************************************************************************)
C1_OneDeviceNodeOpen ==
    /\ pc = "probe_open" => OpenDeviceFds = {}
    /\ pc = "set_atomic" => Cardinality(OpenDeviceFds) = 1

(***************************************************************************)
(* C2.  Exit status: the process exits with 0 whenever the run meets no    *)
(* fatal error (usage, device open, capability, plane list, buffer         *)
(* resolution), export and map failures of single memory planes included;  *)
(* it exits with 1 on a usage error, a device-open failure, a capability   *)
(* failure or a buffer-resolution failure.                                 *)
(* Stated for the runs that end in main's return and in which every output *)
(* file opens.  save_png returns its unassigned ret when no mmap fails,    *)
(* and a failed mmap makes it return an error: TLC refutes this.           *)
(***************************************************************************)
C2_ExitStatus ==
    /\ (Exited /\ ~FatalError /\ ~FailedCall("fopen")) => retval = EXIT_SUCCESS
    /\ (Exited /\ (UsageError \/ FailedCall("open") \/ FailedCall("drmSetClientCap")
                     \/ FailedCall("drmModeGetFB2")))
       => retval = EXIT_FAILURE

(***************************************************************************)
(* C3.  When enabling either client capability fails, no plane-resource    *)
(* query, plane query, framebuffer query, export, map or output file       *)
(* happens in that run, and the process exits with status 1.               *)
(***************************************************************************)
C3_CapabilityFailureStops ==
    FailedCall("drmSetClientCap") =>
        /\ \A k \in 1 .. Len(trace) : trace[k].op \notin EnumerationOps
        /\ DOMAIN files = {}
        /\ pc \in {"out_close_fd", "out_return", "exited"}
        /\ retval = EXIT_FAILURE

\* the universal-planes capability was refused and the process has exited
C3_Witness ==
    /\ Exited
    /\ \E k \in 1 .. Len(trace) :
         trace[k].op = "drmSetClientCap" /\ trace[k].p = 1 /\ ~trace[k].ok

(***************************************************************************)
(* C4.  drmModeGetFB2 and save_png are invoked for a plane only if both    *)
(* its buffer id and its CRTC id are non-zero; a plane with buffer id 0 or *)
(* CRTC id 0 is skipped without error and enumeration continues with the   *)
(* next plane.                                                             *)
(***************************************************************************)
ReportedActive(e) == e.op = "drmModeGetPlane" /\ e.ok /\ e.val[1] # 0 /\ e.val[2] # 0
ReportedInactive(e) == e.op = "drmModeGetPlane" /\ e.ok /\ (e.val[1] = 0 \/ e.val[2] = 0)

C4_OnlyActivePlanesResolved ==
    \* the framebuffer query follows the state query of an active plane
    /\ Latest.op = "drmModeGetFB2" =>
         (ReportedActive(Back(2)) /\ Back(2).i = Latest.i /\ Latest.p = Back(2).val[1])
    \* save_png (its first call is fopen) follows that framebuffer query
    /\ Latest.op = "fopen" =>
         (Back(1).op = "drmModeGetFB2" /\ Back(1).ok /\ Back(1).i = Latest.i)
    /\ pc = "sp_fopen" => (Latest.op = "drmModeGetFB2" /\ Latest.ok /\ Latest.i = i)
    \* an inactive plane: the loop goes on to the next index, or ends normally
    /\ (Latest.op = "drmModeFreePlane" /\ ReportedInactive(Back(1))) =>
         /\ i = Latest.i + 1
         /\ pc \in {"plane_loop", "get_plane", "out_close_prime_fd"}
         /\ pc = "get_plane" => i < plane_res
         /\ pc = "out_close_prime_fd" => (i = plane_res /\ retval = EXIT_SUCCESS)

\* a plane with a buffer but no CRTC was skipped and the next plane's state
\* is being fetched
C4_Witness ==
    /\ pc = "get_plane"
    /\ Latest.op = "drmModeFreePlane"
    /\ Back(1).op = "drmModeGetPlane" /\ Back(1).val[1] # 0 /\ Back(1).val[2] = 0


(***************************************************************************)
(* The calls save_png has made for the display plane it is working on.     *)
(***************************************************************************)
SavePngOps == {"fopen", "drmPrimeHandleToFD", "mmap", "fwrite", "munmap", "close", "fclose"}

\* the calls of the save_png call for display plane n, in order
CallsFor(n) == SelectSeq(trace, LAMBDA e : e.i = n /\ e.op \in SavePngOps)

\* how many times op was called for memory plane q in the sequence seg
Count(seg, op, q) ==
    Cardinality({ k \in 1 .. Len(seg) : seg[k].op = op /\ seg[k].p = q })

CountFailed(seg, op, q) ==
    Cardinality({ k \in 1 .. Len(seg) : seg[k].op = op /\ seg[k].p = q /\ ~seg[k].ok })

\* save_png has run its loop to the end and returned to main
Returned == pc = "after_save" /\ Latest.op = "fclose"

MemPlanes == 0 .. NumMemPlanes - 1

(***************************************************************************)
(* C5.  In save_png a memory plane whose handle is 0 is never exported,    *)
(* never mapped and never written: every export, mmap, fwrite and munmap   *)
(* is for a memory plane with a non-zero handle, and nothing in an output  *)
(* file, in the mappings or among the exported descriptors comes from      *)
(* handle 0.  (Output files are named by display plane only; no file is    *)
(* named by a memory-plane index.)                                         *)
(***************************************************************************)
C5_AbsentPlaneUntouched ==
    /\ Latest.op \in {"drmPrimeHandleToFD", "mmap", "fwrite", "munmap"} =>
         fb2.handles[Latest.p + 1] # 0
    /\ Returned =>
         \A q \in MemPlanes :
            fb2.handles[q + 1] = 0 =>
               \A op \in {"drmPrimeHandleToFD", "mmap", "fwrite", "munmap"} :
                  Count(CallsFor(i), op, q) = 0
    /\ \A f \in DOMAIN files : \A k \in 1 .. Len(files[f]) : files[f][k].handle # 0
    /\ \A r \in maps : r.handle # 0
    /\ \A n \in DOMAIN fds : fds[n].kind = "prime" => fds[n].id # 0

\* save_png has returned for a buffer whose memory planes 0 and 2 are absent
\* and whose planes 1 and 3 were both exported, plane 3 also written
C5_Witness ==
    /\ Returned
    /\ fb2.handles[1] = 0 /\ fb2.handles[3] = 0
    /\ Count(CallsFor(i), "drmPrimeHandleToFD", 1) = 1
    /\ Count(CallsFor(i), "fwrite", 3) = 1

(***************************************************************************)
(* C6.  When the export of memory plane p fails, nothing is mapped and     *)
(* nothing is written for p, and every memory plane with a non-zero handle *)
(* (so every sibling after p) is still exported, and mapped when its       *)
(* export succeeds.                                                        *)
(***************************************************************************)
C6_ExportFailureSkipsOnlyThatPlane ==
    /\ (Latest.op = "drmPrimeHandleToFD" /\ ~Latest.ok) =>
         /\ maps = {}
         /\ \A n \in DOMAIN fds : fds[n].kind # "prime"
         /\ pc \in {"sp_export", "sp_fclose"}
         /\ p > Latest.p
    /\ Returned =>
         LET seg == CallsFor(i) IN
         \A q \in MemPlanes :
            /\ fb2.handles[q + 1] # 0 => Count(seg, "drmPrimeHandleToFD", q) = 1
            /\ CountFailed(seg, "drmPrimeHandleToFD", q) = 1 =>
                 /\ Count(seg, "mmap", q) = 0
                 /\ Count(seg, "fwrite", q) = 0
            /\ (fb2.handles[q + 1] # 0 /\ CountFailed(seg, "drmPrimeHandleToFD", q) = 0) =>
                 Count(seg, "mmap", q) = 1

\* the export of memory plane 0 failed and memory plane 1 of the same buffer
\* was exported, mapped and written
C6_Witness ==
    /\ Returned
    /\ CountFailed(CallsFor(i), "drmPrimeHandleToFD", 0) = 1
    /\ Count(CallsFor(i), "fwrite", 1) = 1

(***************************************************************************)
(* C7 as claimed.  A mapping failure on one memory plane is absorbed: the  *)
(* run is not aborted because of it and the remaining display planes are   *)
(* still processed.  Here: when main reaches its unwind labels after a     *)
(* failed mmap and no other failure, the plane loop has run to its end.    *)
(* TLC refutes this.                                                       *)
(***************************************************************************)
C7_MapFailureAbsorbed ==
    (/\ pc = "out_close_prime_fd"
     /\ FailedCall("mmap")
     /\ ~FailedCall("fopen"))
    => (i = plane_res /\ retval = EXIT_SUCCESS)

(***************************************************************************)
(* C7 as amended.  A mapping failure on one memory plane does not stop     *)
(* save_png's loop: the exported descriptor of that plane is closed and    *)
(* the remaining memory planes of the buffer are processed.  It does end   *)
(* the run: save_png returns a negative value, main processes no further   *)
(* display plane and never sets the exit status to 0.                      *)
(***************************************************************************)
\* the display planes for which some mmap has failed
MapFailedPlanes ==
    { trace[k].i : k \in { j \in 1 .. Len(trace) : trace[j].op = "mmap" /\ ~trace[j].ok } }

C7_MapFailureAbortsRun ==
    /\ (Latest.op = "mmap" /\ ~Latest.ok) =>
         /\ pc = "sp_close"
         /\ prime_fd \in DOMAIN fds /\ fds[prime_fd].kind = "prime"
    /\ (Latest.op = "close" /\ Back(1).op = "mmap" /\ ~Back(1).ok) =>
         /\ Latest.ok /\ Latest.fd = Back(1).fd
         /\ \A n \in DOMAIN fds : fds[n].kind # "prime"
         /\ pc \in {"sp_export", "sp_fclose"} /\ p > Back(1).p
    /\ \A n \in MapFailedPlanes :
         /\ i = n
         /\ retval = EXIT_FAILURE
         /\ pc \notin {"plane_loop", "get_plane", "get_fb2", "sp_fopen"}
         /\ ret < 0
         /\ pc \in {"after_save", "out_close_prime_fd"} => err < 0
         /\ Returned =>
              \A q \in MemPlanes :
                 fb2.handles[q + 1] # 0 => Count(CallsFor(i), "drmPrimeHandleToFD", q) = 1

\* the process has exited after the mmap of memory plane 0 failed, memory
\* plane 1 of that buffer was still written, and a display plane was left
C7_Witness ==
    /\ Exited
    /\ i + 1 < plane_res
    /\ CountFailed(CallsFor(i), "mmap", 0) = 1
    /\ Count(CallsFor(i), "fwrite", 1) = 1

(***************************************************************************)
(* C8.  When drmModeGetFB2 fails for the active plane at position n, the   *)
(* run aborts: no plane after n is queried, resolved or written, the exit  *)
(* status is 1, and the output files written for the planes before n stay  *)
(* as they were written (none is removed, reopened or truncated).          *)
(***************************************************************************)
\* the name "<prefix>-<m>.raw"
RawFile(m) == << Argv1, "-", m, ".raw" >>

\* the lengths of the chunks of a file, and of the fwrite calls for plane m
ChunkLengths(f) == [k \in 1 .. Len(files[f]) |-> files[f][k].size]
WrittenLengths(m) ==
    LET w == SelectSeq(trace, LAMBDA e : e.op = "fwrite" /\ e.i = m)
    IN  [k \in 1 .. Len(w) |-> w[k].val]
OpenedFor(m) == \E k \in 1 .. Len(trace) :
                   trace[k].op = "fopen" /\ trace[k].i = m /\ trace[k].ok

AfterResolutionFailure == {"out_free_resources", "out_close_fd", "out_return", "exited"}

C8_ResolutionFailureAborts ==
    /\ (Latest.op = "drmModeGetFB2" /\ ~Latest.ok) =>
         (pc = "out_free_resources" /\ i = Latest.i /\ retval = EXIT_FAILURE)
    /\ FailedCall("drmModeGetFB2") =>
         LET k == CHOOSE j \in 1 .. Len(trace) :
                     trace[j].op = "drmModeGetFB2" /\ ~trace[j].ok
             n == trace[k].i
         IN  /\ pc \in AfterResolutionFailure
             /\ retval = EXIT_FAILURE
             /\ i = n
             /\ \A j \in 1 .. Len(trace) : trace[j].i <= n
             /\ \A j \in k + 1 .. Len(trace) :
                   trace[j].op \in {"drmModeFreePlaneResources", "close"}
             /\ \A m \in 0 .. n - 1 :
                   OpenedFor(m) =>
                      /\ RawFile(m) \in DOMAIN files
                      /\ ChunkLengths(RawFile(m)) = WrittenLengths(m)
             /\ RawFile(n) \notin DOMAIN files

\* the process has exited with status 1 after drmModeGetFB2 failed for plane
\* 1, and the file written for plane 0 holds data
C8_Witness ==
    /\ Exited /\ retval = EXIT_FAILURE
    /\ i = 1
    /\ Latest.op = "close" /\ Back(2).op = "drmModeGetFB2" /\ ~Back(2).ok
    /\ RawFile(0) \in DOMAIN files /\ Len(files[RawFile(0)]) > 0

(***************************************************************************)
(* The byte length the claims expect: the product by long multiplication   *)
(* on bytes, keeping the low four bytes (the product modulo 2^32).         *)
(***************************************************************************)
\* the four bytes of a 32-bit value, lowest first
Bytes32(a) == << a[2] % 256, a[2] \div 256, a[1] % 256, a[1] \div 256 >>

\* the low four bytes of the product
Times32(a, b) ==
    LET x == Bytes32(a)
        y == Bytes32(b)
        c0 == x[1] * y[1]
        c1 == x[1] * y[2] + x[2] * y[1] + (c0 \div 256)
        c2 == x[1] * y[3] + x[2] * y[2] + x[3] * y[1] + (c1 \div 256)
        c3 == x[1] * y[4] + x[2] * y[3] + x[3] * y[2] + x[4] * y[1] + (c2 \div 256)
    IN  << (c3 % 256) * 256 + (c2 % 256), (c1 % 256) * 256 + (c0 % 256) >>

Halved32(a) == << a[1] \div 2, (a[2] \div 2) + (a[1] % 2) * 32768 >>

\* pitch * height for memory plane 0, (pitch * height) / 2 for planes 1..3
ExpectedLength(pitch, height, q) ==
    IF q = 0 THEN Times32(pitch, height) ELSE Halved32(Times32(pitch, height))

(***************************************************************************)
(* C9.  Output files: one file "<prefix>-<plane index>.raw" is opened for  *)
(* each active plane that is resolved, the index being the plane's         *)
(* position in the plane list, and none for any other plane; when save_png *)
(* returns, the file holds the mapped bytes of the memory planes whose     *)
(* mmap succeeded, in increasing memory-plane order, each with exactly its *)
(* computed byte length.                                                   *)
(***************************************************************************)
MappedOk(seg, q) ==
    \E k \in 1 .. Len(seg) : seg[k].op = "mmap" /\ seg[k].p = q /\ seg[k].ok

RECURSIVE ExpectedContent(_, _, _)
ExpectedContent(fb, seg, q) ==
    IF q >= NumMemPlanes THEN << >>
    ELSE (IF MappedOk(seg, q)
            THEN << [handle |-> fb.handles[q + 1],
                     size |-> ExpectedLength(fb.pitches[q + 1], fb.height, q)] >>
            ELSE << >>)
         \o ExpectedContent(fb, seg, q + 1)

C9_OutputFiles ==
    \* save_png's first call follows every successful framebuffer query
    /\ (Back(1).op = "drmModeGetFB2" /\ Back(1).ok) =>
         (Latest.op = "fopen" /\ Latest.i = Back(1).i)
    /\ (Latest.op = "drmModeGetFB2" /\ Latest.ok) => pc = "sp_fopen"
    \* a file is opened at most once, under the name of the plane's position
    /\ (Latest.op = "fopen" /\ Latest.ok) =>
         /\ Latest.i = i
         /\ Count(CallsFor(i), "fopen", -1) = 1
         /\ RawFile(i) \in DOMAIN files
         /\ files[RawFile(i)] = << >>
    /\ (Latest.op = "fopen" /\ ~Latest.ok) => RawFile(i) \notin DOMAIN files
    \* the files that exist are those of the planes save_png opened one for
    /\ (pc \in {"after_save", "exited", "crashed"}) =>
         DOMAIN files = { RawFile(m) : m \in { n \in 0 .. i : OpenedFor(n) } }
    \* the content when save_png returns
    /\ Returned => files[RawFile(i)] = ExpectedContent(fb2, CallsFor(i), 0)
    \* and it stays: what a file holds is what was written for its plane
    /\ (pc \in {"exited", "crashed"}) =>
         \A m \in 0 .. i : OpenedFor(m) => ChunkLengths(RawFile(m)) = WrittenLengths(m)

\* save_png has returned for plane 1 with both memory planes written, in
\* order, and plane 0, which was inactive, has no file
C9_Witness ==
    /\ Returned
    /\ i = 1
    /\ DOMAIN files = { RawFile(1) }
    /\ Len(files[RawFile(1)]) = 2
    /\ files[RawFile(1)][1].handle = fb2.handles[1]
    /\ files[RawFile(1)][2].handle = fb2.handles[2]

(***************************************************************************)
(* C10.  The byte length used for mmap, fwrite and munmap of memory plane  *)
(* p is pitch * height for p = 0 and (pitch * height) / 2, rounded down,   *)
(* for p = 1..3, the product taken modulo 2^32.                            *)
(***************************************************************************)
C10_PlaneByteLength ==
    /\ Latest.op \in {"mmap", "fwrite", "munmap"} =>
         /\ Latest.val = ExpectedLength(fb2.pitches[Latest.p + 1], fb2.height, Latest.p)
         \* where the product fits, the plain integers agree
         /\ LET a == fb2.pitches[Latest.p + 1]
                b == fb2.height
            IN  (a[1] = 0 /\ b[1] = 0 /\ a[2] < 32768 /\ b[2] < 32768) =>
                   Latest.val[1] * 65536 + Latest.val[2] =
                      (a[2] * b[2]) \div (IF Latest.p = 0 THEN 1 ELSE 2)
    /\ Latest.op = "fwrite" =>
         (Back(1).op = "mmap" /\ Back(1).ok /\ Back(1).p = Latest.p
            /\ Back(1).val = Latest.val)
    /\ Latest.op = "munmap" =>
         (Back(1).op = "fwrite" /\ Back(1).p = Latest.p /\ Back(1).val = Latest.val)

\* memory plane 3 with pitch 2^32 - 1 and height 65537 was mapped, written
\* and unmapped with length ((2^32 - 1) * 65537 mod 2^32) / 2 = 0x7FFF7FFF
C10_Witness ==
    /\ Latest.op = "munmap"
    /\ Latest.p = 3
    /\ fb2.pitches[4] = << 65535, 65535 >> /\ fb2.height = << 1, 1 >>
    /\ Latest.val = << 32767, 32767 >>

(***************************************************************************)
(* Vocabulary of the converter claims.                                     *)
(***************************************************************************)
Sample(red, green, blue) == [r |-> red, g |-> green, b |-> blue]

\* the k-th pixel (from 1) of the buffer behind from, as the host reads it
Pixel16(k) == Load16(from, k - 1, byte_order)
Pixel32(k) == Load32(from, k - 1, byte_order)

\* the samples stored so far by the 16-bit and by the 32-bit loop
Stored16 == IF conv_fb.bpp = 16 /\ pc \in {"cv_loop16", "cv_done"} THEN 1 .. Len(to) ELSE {}
Stored32 == IF conv_fb.bpp # 16 /\ pc \in {"cv_loop32", "cv_done"} THEN 1 .. Len(to) ELSE {}

\* the buffer of the scenario: width 2, height 1, 32 bits per pixel, bytes
\* 00 00 FF 00 and then 10 20 30 00
InScenario ==
    /\ conv_fb = [width |-> ToU32(2), height |-> ToU32(1), bpp |-> 32]
    /\ from = << \H00, \H00, \Hff, \H00, \H10, \H20, \H30, \H00 >>

(***************************************************************************)
(* C11 as claimed.  Converting the scenario's buffer yields exactly two    *)
(* samples, {r:0, g:0, b:255} and then {r:0x30, g:0x20, b:0x10}.           *)
(* The byte 0xFF is the third byte of the first pixel and 0x30 the third   *)
(* byte of the second: whatever channel the one lands in, the other lands  *)
(* in too.  TLC refutes this for both byte orders.                         *)
(***************************************************************************)
C11_ScenarioAsClaimed ==
    (InScenario /\ Converted) =>
        to = << Sample(0, 0, 255), Sample(\H30, \H20, \H10) >>

(***************************************************************************)
(* C11 as amended.  Converting the scenario's buffer yields exactly two    *)
(* samples, in pixel order: on a little-endian host {r:255, g:0, b:0} and  *)
(* then {r:0x30, g:0x20, b:0x10}; on a big-endian host {r:0, g:255, b:0}   *)
(* and then {r:0x20, g:0x30, b:0}.                                         *)
(***************************************************************************)
C11_ScenarioSamples ==
    InScenario =>
        /\ Converted => Len(to) = 2
        /\ Len(to) <= 2
        /\ byte_order = "little" =>
             \A k \in 1 .. Len(to) :
                to[k] = << Sample(255, 0, 0), Sample(\H30, \H20, \H10) >>[k]
        /\ byte_order = "big" =>
             \A k \in 1 .. Len(to) :
                to[k] = << Sample(0, 255, 0), Sample(\H20, \H30, 0) >>[k]

\* the scenario's buffer has been converted on a little-endian host
C11_Witness ==
    /\ InScenario
    /\ Converted
    /\ byte_order = "little"
    /\ Len(to) = 2

(***************************************************************************)
(* C12.  For every 16-bit pixel px, rgb16_to_24(px) has blue with its low  *)
(* 3 bits 0, green with its low 2 bits 0 and red with its low 3 bits 0;    *)
(* b >> 3, g >> 2 and r >> 3 are the fields px[0..4], px[5..10] and        *)
(* px[11..15]; every channel fits in 8 bits.                               *)
(***************************************************************************)
C12_Rgb16Fields ==
    \A k \in Stored16 :
        LET px == Pixel16(k)
            s == to[k]
        IN  /\ s.b % 8 = 0 /\ s.g % 4 = 0 /\ s.r % 8 = 0
            /\ s.b \div 8 = px % 32
            /\ s.g \div 4 = (px \div 32) % 64
            /\ s.r \div 8 = px \div 2048
            /\ s.r \in 0 .. 255 /\ s.g \in 0 .. 255 /\ s.b \in 0 .. 255

\* the pixel 0xFFFF has been converted to {r:0xF8, g:0xFC, b:0xF8}
C12_Witness ==
    /\ Converted
    /\ conv_fb.bpp = 16
    /\ Len(to) = 1
    /\ Pixel16(1) = \Hffff
    /\ to[1] = Sample(\Hf8, \Hfc, \Hf8)

(***************************************************************************)
(* C13.  For every 32-bit pixel px, rgb32_to_24(px) keeps the low 24 bits: *)
(* blue is bits 0..7, green bits 8..15, red bits 16..23, so that           *)
(* (r << 16) | (g << 8) | b = px mod 2^24; and it depends on nothing else: *)
(* a pixel that differs from px only in bits 24..31 gives the same sample. *)
(***************************************************************************)
\* the values tried for bits 24..31: none set, each one alone, all set
TopBytes == {0, 255} \cup { 2 ^ n : n \in 0 .. 7 }

C13_Rgb32Low24 ==
    \A k \in Stored32 :
        LET px == Pixel32(k)
            s == to[k]
        IN  /\ s.r \in 0 .. 255 /\ s.g \in 0 .. 255 /\ s.b \in 0 .. 255
            \* the halves of (r << 16) | (g << 8) | b and of px mod 2^24
            /\ << s.r, s.g * 256 + s.b >> = << px[1] % 256, px[2] >>
            /\ \A t \in TopBytes :
                  rgb32_to_24(<< t * 256 + (px[1] % 256), px[2] >>) = s

\* the pixel 0xFF302010 has been converted to {r:0x30, g:0x20, b:0x10}
C13_Witness ==
    /\ Converted
    /\ conv_fb.bpp = 32
    /\ Len(to) = 1
    /\ Pixel32(1) = << \Hff30, \H2010 >>
    /\ to[1] = Sample(\H30, \H20, \H10)

(***************************************************************************)
(* C14.  Exporter/Mapper resource lifecycle in save_png: on every path     *)
(* each exported descriptor is closed exactly once and each successful     *)
(* mapping is unmapped exactly once, the unmap coming before the close of  *)
(* its descriptor; when save_png has returned, whether after its loop or   *)
(* because the output file did not open, no exported descriptor and no     *)
(* mapping of the buffer is left, so none is while main fetches the next   *)
(* plane.                                                                  *)
(***************************************************************************)
\* how many calls of op for memory plane q in seg succeeded
CountOk(seg, op, q) == Count(seg, op, q) - CountFailed(seg, op, q)

\* the positions of main, between two calls of save_png or after the last
InMain ==
    pc \in {"after_save", "plane_loop", "get_plane", "get_fb2", "sp_fopen",
            "out_close_prime_fd", "out_free_fb", "out_free_resources",
            "out_close_fd", "out_return", "exited", "crashed"}

ExportedFds == { n \in DOMAIN fds : fds[n].kind = "prime" }

C14_ExportMapLifecycle ==
    \* nothing of a buffer outlives the save_png call for it
    /\ InMain => (ExportedFds = {} /\ maps = {})
    \* inside the loop at most the current plane's descriptor and mapping exist
    /\ Cardinality(ExportedFds) <= 1 /\ Cardinality(maps) <= 1
    /\ maps # {} => (pc \in {"sp_write", "sp_munmap"} /\ ExportedFds = {prime_fd})
    \* a close in save_png closes the descriptor exported for that plane,
    \* which is open, right after the munmap or the failed mmap of the plane
    /\ (Latest.op = "close" /\ Latest.i >= 0) =>
         /\ Latest.ok
         /\ Back(1).i = Latest.i /\ Back(1).p = Latest.p /\ Back(1).fd = Latest.fd
         /\ \/ Back(1).op = "munmap"
            \/ Back(1).op = "mmap" /\ ~Back(1).ok
         /\ maps = {}
    \* a munmap undoes the mapping made for that plane, its descriptor still open
    /\ Latest.op = "munmap" =>
         /\ Back(2).op = "mmap" /\ Back(2).ok
         /\ Back(2).i = Latest.i /\ Back(2).p = Latest.p /\ Back(2).val = Latest.val
         /\ prime_fd \in ExportedFds
         /\ maps = {}
    \* the mmap and then the close use the descriptor the export returned
    /\ Latest.op = "mmap" =>
         /\ Back(1).op = "drmPrimeHandleToFD" /\ Back(1).ok
         /\ Back(1).i = Latest.i /\ Back(1).p = Latest.p /\ Back(1).fd = Latest.fd
    \* exactly once, per memory plane
    /\ Returned =>
         LET seg == CallsFor(i) IN
         \A q \in MemPlanes :
            /\ Count(seg, "close", q) = CountOk(seg, "drmPrimeHandleToFD", q)
            /\ Count(seg, "munmap", q) = CountOk(seg, "mmap", q)
            /\ Count(seg, "close", q) <= 1 /\ Count(seg, "munmap", q) <= 1
    \* the output file did not open: nothing was exported
    /\ (Latest.op = "fopen" /\ ~Latest.ok) =>
         (pc \in {"after_save", "out_close_prime_fd"} /\ Len(CallsFor(i)) = 1)

\* save_png has returned for a buffer whose memory plane 0 failed to map and
\* whose memory plane 1 was mapped, unmapped and closed
C14_Witness ==
    /\ Returned
    /\ CountFailed(CallsFor(i), "mmap", 0) = 1
    /\ Count(CallsFor(i), "close", 0) = 1
    /\ Count(CallsFor(i), "munmap", 1) = 1
    /\ Count(CallsFor(i), "close", 1) = 1

(***************************************************************************)
(* C15.  A failure of the per-plane state query (drmModeGetPlane returns   *)
(* no plane object) is not fatal: the plane is skipped, no field of the    *)
(* missing object is read, and enumeration goes on with the next plane.    *)
(* The code reads plane->fb_id without testing plane, and the process is   *)
(* killed: TLC refutes this.                                               *)
(***************************************************************************)
C15_PlaneQueryFailureSkips ==
    (Latest.op = "drmModeGetPlane" /\ ~Latest.ok) =>
        /\ ~Crashed
        /\ pc \in {"plane_loop", "get_plane", "out_close_prime_fd"}
        /\ i = Latest.i + 1

(***************************************************************************)
(* C16.  Device selection, over any finite sequence of device nodes.  The  *)
(* locator probes card0, card1, ... in order, one open per node, and the   *)
(* loop ends at the first node that does not open or that is accepted.  It *)
(* accepts the lowest-indexed node whose capability query succeeds and     *)
(* reports dumb-buffer support when every node before that one opens (each *)
(* of them probed, rejected and closed).  It fails, with exit status 1,    *)
(* only when an open fails: the open of a node in the loop, no node having *)
(* been accepted, whether or not a node behind it could be opened and      *)
(* accepted; or the second open of the accepted node.                      *)
(*                                                                         *)
(* As claimed (the locator fails only if no node of the sequence could be  *)
(* opened and accepted, or the second open fails), TLC refutes it: card0   *)
(* does not open, card1 supports dumb buffers, and main exits with 1       *)
(* without having opened card1.                                            *)
(***************************************************************************)
AcceptedCap(e) == e.op = "drmGetCap" /\ e.ok /\ e.val[2] = 1
RejectedCap(e) == e.op = "drmGetCap" /\ (~e.ok \/ e.val[2] = 0)

\* the device nodes a capability query has accepted so far
AcceptedCards ==
    { trace[k].val[1] : k \in { j \in 1 .. Len(trace) : AcceptedCap(trace[j]) } }

InProbeLoop == pc \in {"probe_open", "probe_cap", "probe_close"}

\* the indices of the nodes that can be opened and whose capability query
\* succeeds and reports dumb-buffer support
UsableCards == { k \in 0 .. Len(nodes) - 1 : nodes[k + 1] = "dumb" }

\* the lowest index in a non-empty set of indices
Lowest(S) == CHOOSE k \in S : \A j \in S : k <= j

\* the indices at which there is no node to open or a node that does not open
UnopenableCards ==
    { k \in 0 .. Len(nodes) : k = Len(nodes) \/ nodes[k + 1] = "noopen" }

\* the lowest-indexed usable node lies before every index that does not open
UsableBeforeUnopenable ==
    UsableCards # {} /\ Lowest(UsableCards) < Lowest(UnopenableCards)

\* main has ended in the locator: no call was made on a located device
LocatorFailed == Exited /\ ~UsageError /\ ~Made("drmSetClientCap")

\* the second open of the accepted node is the call that failed
ReopenFailed ==
    Len(trace) >= 2 /\ Latest.op = "open" /\ ~Latest.ok /\ AcceptedCap(Back(1))

\* the claim as stated: whenever some node of the sequence is usable the
\* lowest-indexed of them is accepted, and the locator fails only if no node
\* is usable or the second open fails
C16_FailsOnlyWithoutUsableNode ==
    /\ AcceptedCards # {} => AcceptedCards = { Lowest(UsableCards) }
    /\ (Exited /\ ~UsageError /\ UsableCards # {}) =>
         AcceptedCards = { Lowest(UsableCards) }
    /\ LocatorFailed =>
         /\ retval = EXIT_FAILURE
         /\ UsableCards = {} \/ ReopenFailed

C16_DeviceSelection ==
    \* the loop is bounded by the nodes: the k-th pass opens node k
    /\ (InProbeLoop \/ pc = "reopen") => card <= Len(nodes)
    /\ pc = "probe_open" =>
         /\ Len(trace) = 3 * card
         /\ card <= Lowest(UnopenableCards)
         /\ \A k \in 0 .. card - 1 :
               /\ trace[3 * k + 1].op = "open" /\ trace[3 * k + 1].ok
               /\ trace[3 * k + 1].val[1] = k
               /\ RejectedCap(trace[3 * k + 2]) /\ trace[3 * k + 2].val[1] = k
               /\ trace[3 * k + 3].op = "close" /\ trace[3 * k + 3].ok
               /\ trace[3 * k + 3].fd = trace[3 * k + 1].fd
    \* the accepted node is the lowest-indexed usable node, and every node
    \* before it opens
    /\ AcceptedCap(Latest) =>
         /\ pc = "reopen"
         /\ Latest.val[1] = card
         /\ UsableBeforeUnopenable
         /\ card = Lowest(UsableCards)
         /\ Len(trace) = 3 * card + 2
    /\ pc = "reopen" => AcceptedCap(Latest)
    /\ Cardinality(AcceptedCards) <= 1
    \* success: the accepted node is opened again and negotiation starts on it
    /\ (Latest.op = "open" /\ Latest.ok /\ AcceptedCap(Back(1))) =>
         /\ pc = "set_atomic"
         /\ drm_fd = Latest.fd /\ fds[drm_fd] = [kind |-> "card", id |-> card]
         /\ AcceptedCards = {card}
    /\ pc \in {"set_atomic", "set_universal", "get_plane_res"} => AcceptedCards = {card}
    \* failure: only an open that fails, in the loop or after it
    /\ (Latest.op = "open" /\ ~Latest.ok) =>
         /\ pc \in {"out_return", "exited"}
         /\ retval = EXIT_FAILURE
         /\ IF AcceptedCap(Back(1))
              THEN AcceptedCards = {card} /\ UsableBeforeUnopenable
              \* in the loop: at the lowest index that does not open, which
              \* no usable node precedes; usable nodes may lie behind it
              ELSE /\ AcceptedCards = {}
                   /\ card = Lowest(UnopenableCards)
                   /\ ~UsableBeforeUnopenable
    /\ LocatorFailed =>
         (Latest.op = "open" /\ ~Latest.ok /\ retval = EXIT_FAILURE)
    \* which of the two happens is settled by the nodes up to the first that
    \* does not open
    /\ (Exited /\ ~UsageError) =>
         AcceptedCards = IF UsableBeforeUnopenable
                           THEN { Lowest(UsableCards) } ELSE {}
    /\ pc = "set_atomic" => UsableBeforeUnopenable

\* card0 was rejected (no dumb buffers) and closed, card1 was accepted and
\* opened again, and a node lies behind card1 or the sequence ends there
C16_Witness ==
    /\ pc = "set_atomic"
    /\ card = 1
    /\ RejectedCap(trace[2]) /\ trace[2].ok
    /\ AcceptedCards = {1}
    /\ UsableCards # {} /\ Lowest(UsableCards) = 1

(***************************************************************************)
(* C17.  On every path through main to the exit, each release made by the  *)
(* unwind labels is applied to a resource main acquired before and has not *)
(* released yet: close(prime_fd) to an open exported descriptor,           *)
(* drmModeFreeFB(fb) to a buffer returned by drmModeGetFB,                 *)
(* drmModeFreePlaneResources to the list returned by                       *)
(* drmModeGetPlaneResources, close(drm_fd) to the open device descriptor.  *)
(* main never assigns prime_fd nor fb: TLC refutes this.                   *)
(***************************************************************************)
\* descriptor n was returned by the export and has not been closed since
ExportedAndOpen(n) ==
    \E k \in 1 .. Len(trace) - 1 :
       /\ trace[k].op = "drmPrimeHandleToFD" /\ trace[k].ok /\ trace[k].fd = n
       /\ \A j \in k + 1 .. Len(trace) - 1 : ~(trace[j].op = "close" /\ trace[j].fd = n)

C17_UnwindReleasesAcquired ==
    \* close(prime_fd) has just run
    /\ (pc = "out_free_fb" /\ Latest.op = "close") =>
         (Latest.ok /\ ExportedAndOpen(Latest.fd))
    \* drmModeFreeFB(fb) has just run
    /\ Latest.op = "drmModeFreeFB" => (Latest.ok /\ Made("drmModeGetFB"))
    \* drmModeFreePlaneResources(plane_res) has just run
    /\ Latest.op = "drmModeFreePlaneResources" =>
         (Latest.ok /\ plane_res >= 0 /\ Made("drmModeGetPlaneResources"))
    \* close(drm_fd) has just run
    /\ (pc = "out_return" /\ Latest.op = "close") =>
         (Latest.ok /\ Latest.fd = drm_fd)

(***************************************************************************)
(* C18.  Every resource main acquires is released before the process       *)
(* exits: each buffer descriptor returned by drmModeGetFB2 is freed before *)
(* the next plane is processed or the process exits, the plane-resource    *)
(* list is freed, and every device-node descriptor opened while probing    *)
(* and re-opening is closed.                                               *)
(* The descriptor of the accepted probe open is never closed and no        *)
(* drmModeGetFB2 result is ever freed: TLC refutes this.                   *)
(***************************************************************************)
\* the calls that returned a buffer descriptor, and those that freed one
ResolvedCount == Cardinality({ k \in 1 .. Len(trace) : trace[k].op = "drmModeGetFB2" /\ trace[k].ok })
FreedCount == Cardinality({ k \in 1 .. Len(trace) : trace[k].op = "drmModeFreeFB2" })

C18_AllReleasedAtExit ==
    /\ Exited =>
         /\ OpenDeviceFds = {}
         /\ FreedCount = ResolvedCount
         /\ (\E k \in 1 .. Len(trace) :
                trace[k].op = "drmModeGetPlaneResources" /\ trace[k].ok)
            => Made("drmModeFreePlaneResources")
    \* a descriptor is freed before the next plane is fetched
    /\ pc = "get_plane" => FreedCount = ResolvedCount

(***************************************************************************)
(* C19.  The value save_png returns is determined by the outcomes of its   *)
(* operations: 0 when the output file opens and no mmap fails (also when   *)
(* every export fails or no memory plane has a handle), a negative error   *)
(* code only when the output file did not open or some mmap failed.        *)
(* ret is returned without ever having been assigned when no mmap fails:   *)
(* TLC refutes this.                                                       *)
(***************************************************************************)
\* some mmap of the save_png call for display plane n failed
MapFailedIn(n) ==
    \E k \in 1 .. Len(trace) : trace[k].op = "mmap" /\ trace[k].i = n /\ ~trace[k].ok

C19_ReturnValueDetermined ==
    /\ (Returned /\ ~MapFailedIn(i)) => err = 0
    /\ (Returned /\ MapFailedIn(i)) => err < 0
    /\ (pc = "after_save" /\ Latest.op = "fopen" /\ ~Latest.ok) => err < 0

====
